---- MODULE Spec2Model ----
(***************************************************************************)
(* Model of custom_components/kodak_smart_thome/camera.py: the camera      *)
(* entity KodakSmartHomeCam.  The entity caches the video URL of the       *)
(* newest motion event of its device and refreshes it from update(); it    *)
(* proxies an MJPEG stream of that URL through an ffmpeg helper session.   *)
(***************************************************************************)
EXTENDS Integers, Sequences, FiniteSets, TLC

\* ------------------------------------------------------------------ bounds
\* Largest clock value (minutes since the entity was constructed).
MaxTime == 60
\* Minutes the clock advances in one step of the environment.
ClockStep == 15
\* Largest number of data items the event feed holds, over all its events.
MaxItems == 2
\* Largest number of devices the data source reports at platform setup.
MaxDevices == 3

\* --------------------------------------------------------------- constants
\* FORCE_REFRESH_INTERVAL = timedelta(minutes=45)
FORCE_REFRESH_INTERVAL == 45

\* Python's None, as the value of _last_video_id and of _video_url.
None == "None"
\* Identifiers of the motion events the data source may report.
EventIds == {"A", "B"}
\* File references (URLs) a data item may carry; "" is the empty string.
Files == {"", "u1", "u2"}
\* Data items: a dict with a "file" and possibly a "file_type".  An item
\* without the tag, an image item (type 1) and the video items (type 2).
Items ==
    {[file |-> "u1"], [file_type |-> 1, file |-> "u1"]}
        \cup {[file_type |-> 2, file |-> f] : f \in Files}

\* The lists of at most n data items.
DataSeqs(n) == UNION {[1..k -> Items] : k \in 0..n}

RECURSIVE TotalItems(_)
\* Number of data items of all events of a feed.
TotalItems(events) ==
    IF events = <<>> THEN 0
    ELSE Len(Head(events).data) + TotalItems(Tail(events))

RECURSIVE FeedsOver(_, _)
\* The event lists (oldest first) with distinct ids from `ids` and at most
\* `budget` data items in all: what get_motion_events() may return.
FeedsOver(ids, budget) ==
    {<<>>} \cup
    UNION {
        {Append(r, [id |-> i, data |-> d]) : r \in FeedsOver(ids \ {i}, budget - Len(d))}
        : i \in ids, d \in DataSeqs(budget)}

Feeds == FeedsOver(EventIds, MaxItems)

\* Device records as setup_platform reads them: a name and the online flag.
Devices == [name : {"cam1", "cam2"}, is_online : BOOLEAN]
\* The snapshots get_devices may return.
DeviceLists == UNION {[1..k -> Devices] : k \in 0..MaxDevices}

VARIABLES
    feed,           \* what get_motion_events(device_id) returns now
    now,            \* dt_util.utcnow(), in minutes
    last_video_id,  \* self._last_video_id
    video_url,      \* self._video_url
    expires_at,     \* self._expires_at
    utcnow,         \* self._utcnow: the time of construction or of the last update()
    hist,           \* history: the calls made on the feed as it is now
    stream_pc,      \* where handle_async_mjpeg_stream is
    session,        \* the ffmpeg session of the CameraMjpeg helper
    stream_exc,     \* whether an exception is pending in the try block
    stream_result,  \* what handle_async_mjpeg_stream returned
    calls,          \* history: the operations called on the helpers and the proxy utility
    image_pc,       \* where async_camera_image is
    frame_task,     \* the task of ffmpeg.get_image(...) that asyncio.shield wraps
    image_result,   \* what async_camera_image returned
    devices,        \* kodak_smart_home_cams.get_devices at platform setup
    setup_pc,       \* where setup_platform is
    cams,           \* the devices a KodakSmartHomeCam was created for, as given to add_entities
    notifications,  \* the persistent notifications created, each with the names it lists
    upd_pc,         \* where an update() that runs beside the data source is
    upd_events_data, \* its local last_events_data
    upd_event_id,   \* its local last_event_id
    data_from,      \* history: the id of the event last_events_data was read from
    upd_adopted     \* history: whether it has assigned the entity's fields

camVars == <<feed, now, last_video_id, video_url, expires_at, utcnow, hist>>
streamVars == <<stream_pc, session, stream_exc, stream_result, calls>>
imageVars == <<image_pc, frame_task, image_result>>
setupVars == <<devices, setup_pc, cams, notifications>>
raceVars == <<upd_pc, upd_events_data, upd_event_id, data_from, upd_adopted>>
vars == <<camVars, streamVars, imageVars, setupVars, raceVars>>

\* The entity's mutable fields as one record.
Self ==
    [last_video_id |-> last_video_id, video_url |-> video_url,
     expires_at |-> expires_at, utcnow |-> utcnow]

\* ------------------------------------------------------------ the program
\* Mutant of IsVideoItem: the value of the tag is not compared with 2.
IsVideoItem_any_tag(event_data) == "file_type" \in DOMAIN event_data

\* "file_type" in event_data and event_data["file_type"] == 2
IsVideoItem(event_data) ==
    "file_type" \in DOMAIN event_data /\ event_data.file_type = 2

\* Mutant of get_event_video_url: the loop does not return at its first hit,
\* so the last item of type 2 wins.
get_event_video_url_last(events_data) ==
    LET hits == {i \in 1..Len(events_data) : IsVideoItem(events_data[i])}
    IN  IF hits = {} THEN None
        ELSE events_data[CHOOSE i \in hits : \A j \in hits : i >= j].file

\* _get_event_video_url: the "file" of the first item of type 2, else None.
get_event_video_url(events_data) ==
    LET hits == {i \in 1..Len(events_data) : IsVideoItem(events_data[i])}
    IN  IF hits = {} THEN None
        ELSE events_data[CHOOSE i \in hits : \A j \in hits : i <= j].file

\* Mutant of Truthy: update() does not test the URL it found.
Truthy_always(url) == TRUE

\* Python truthiness of a video_url: None and "" are false.
Truthy(url) == url /= None /\ url /= ""

\* Mutant of CamInit: the first event of the list is taken, not the last.
CamInit_first_event(motion_events, t) ==
    LET lvid == IF Len(motion_events) > 0
                THEN motion_events[1].id
                ELSE None
    IN  [last_video_id |-> lvid,
         video_url |-> IF lvid /= None
                       THEN get_event_video_url(motion_events[1].data)
                       ELSE None,
         expires_at |-> FORCE_REFRESH_INTERVAL + t,
         utcnow |-> t]

\* Mutant of CamInit: without events the URL starts as "" instead of None.
CamInit_empty_url(motion_events, t) ==
    LET lvid == IF Len(motion_events) > 0
                THEN motion_events[Len(motion_events)].id
                ELSE None
    IN  [last_video_id |-> lvid,
         video_url |-> IF lvid /= None
                       THEN get_event_video_url(motion_events[Len(motion_events)].data)
                       ELSE "",
         expires_at |-> FORCE_REFRESH_INTERVAL + t,
         utcnow |-> t]

\* __init__: the fields after construction over motion_events at time t.
CamInit(motion_events, t) ==
    LET lvid == IF Len(motion_events) > 0
                THEN motion_events[Len(motion_events)].id
                ELSE None
    IN  [last_video_id |-> lvid,
         video_url |-> IF lvid /= None
                       THEN get_event_video_url(motion_events[Len(motion_events)].data)
                       ELSE None,
         expires_at |-> FORCE_REFRESH_INTERVAL + t,
         utcnow |-> t]

\* Mutant of NeedsRefresh: "and" in place of "or".
NeedsRefresh_and(self, last_event_id) ==
    self.last_video_id /= last_event_id /\ self.utcnow >= self.expires_at

\* Mutant of NeedsRefresh: the deadline is not looked at.
NeedsRefresh_id_only(self, last_event_id) ==
    self.last_video_id /= last_event_id

\* Mutant of NeedsRefresh: ">" in place of ">=".
NeedsRefresh_gt(self, last_event_id) ==
    self.last_video_id /= last_event_id \/ self.utcnow > self.expires_at

\* The condition of update() under which it looks for a video URL.
NeedsRefresh(self, last_event_id) ==
    self.last_video_id /= last_event_id \/ self.utcnow >= self.expires_at

\* Mutant of Adopt: the new deadline is counted from the old one.
Adopt_from_deadline(self, last_event_id, url) ==
    [self EXCEPT !.last_video_id = last_event_id,
                 !.video_url = url,
                 !.expires_at = FORCE_REFRESH_INTERVAL + self.expires_at]

\* Mutant of Adopt: _last_video_id is not assigned.
Adopt_keep_id(self, last_event_id, url) ==
    [self EXCEPT !.video_url = url,
                 !.expires_at = FORCE_REFRESH_INTERVAL + self.utcnow]

\* The assignments update() makes once it has found a video URL.
Adopt(self, last_event_id, url) ==
    [self EXCEPT !.last_video_id = last_event_id,
                 !.video_url = url,
                 !.expires_at = FORCE_REFRESH_INTERVAL + self.utcnow]

\* Mutant of update: an empty list clears the cached event and URL.
update_clear_on_empty(self, ev1, ev2, ev3, t) ==
    LET s0 == [self EXCEPT !.utcnow = t]
    IN  IF Len(ev1) > 0
        THEN LET last_events_data == ev2[Len(ev2)].data
                 last_event_id == ev3[Len(ev3)].id
                 url == get_event_video_url(last_events_data)
             IN  IF NeedsRefresh(s0, last_event_id) /\ Truthy(url)
                 THEN Adopt(s0, last_event_id, url)
                 ELSE s0
        ELSE [s0 EXCEPT !.last_video_id = None, !.video_url = None]

\* update(): the fields after a call at time t.  ev1, ev2 and ev3 are the
\* results of its three get_motion_events() calls, in order.
update(self, ev1, ev2, ev3, t) ==
    LET s0 == [self EXCEPT !.utcnow = t]
    IN  IF Len(ev1) > 0
        THEN LET last_events_data == ev2[Len(ev2)].data
                 last_event_id == ev3[Len(ev3)].id
                 url == get_event_video_url(last_events_data)
             IN  IF NeedsRefresh(s0, last_event_id) /\ Truthy(url)
                 THEN Adopt(s0, last_event_id, url)
                 ELSE s0
        ELSE s0

\* The fields update() may assign after its first line.
Cached(self) ==
    [last_video_id |-> self.last_video_id, video_url |-> self.video_url,
     expires_at |-> self.expires_at]

NoPre == [last_video_id |-> None, video_url |-> None, expires_at |-> 0]

\* --------------------------------------------------------------- actions
InitEntity ==
    /\ feed \in Feeds
    /\ now = 0
    /\ LET s == CamInit(feed, 0)
       IN  /\ last_video_id = s.last_video_id
           /\ video_url = s.video_url
           /\ expires_at = s.expires_at
           /\ utcnow = s.utcnow
    /\ hist = [op |-> "init", n |-> 0, pre |-> NoPre, empty |-> feed = <<>>,
               pending |-> None, was_pending |-> None]
    /\ stream_pc = "idle"
    /\ session = "none"
    /\ stream_exc = FALSE
    /\ stream_result = "pending"
    /\ calls = {}
    /\ image_pc = "idle"
    /\ frame_task = "none"
    /\ image_result = "pending"
    /\ upd_pc = "idle"
    /\ upd_events_data = <<>>
    /\ upd_event_id = None
    /\ data_from = None
    /\ upd_adopted = FALSE

\* The entity as constructed, in a platform whose setup is not looked at.
Init ==
    /\ InitEntity
    /\ devices = <<>>
    /\ setup_pc = "done"
    /\ cams = <<>>
    /\ notifications = <<>>

\* History: the id of the newest event when an update() has seen it without a
\* type-2 item while another id was held, and it is still the newest event
\* and still not the id held (lvid); None otherwise.
Pending(lvid) ==
    IF /\ feed /= <<>>
       /\ lvid /= feed[Len(feed)].id
       /\ \/ hist.pending = feed[Len(feed)].id
          \/ \A i \in 1..Len(feed[Len(feed)].data) : ~IsVideoItem(feed[Len(feed)].data[i])
    THEN feed[Len(feed)].id
    ELSE None

\* The host calls update(); the data source returns the same list to each of
\* the three get_motion_events() calls.
Update ==
    /\ LET s == update(Self, feed, feed, feed, now)
       IN  /\ last_video_id' = s.last_video_id
           /\ video_url' = s.video_url
           /\ expires_at' = s.expires_at
           /\ utcnow' = s.utcnow
    /\ hist' = [hist EXCEPT !.op = "update",
                            !.n = IF hist.n < 2 THEN hist.n + 1 ELSE 2,
                            !.pre = Cached(Self),
                            !.pending = Pending(last_video_id'),
                            !.was_pending = hist.pending]
    /\ UNCHANGED <<feed, now, streamVars, imageVars, setupVars, raceVars>>

\* The clock advances.
Tick ==
    /\ now + ClockStep <= MaxTime
    /\ now' = now + ClockStep
    /\ UNCHANGED <<feed, last_video_id, video_url, expires_at, utcnow, hist, streamVars, imageVars, setupVars, raceVars>>

\* The history once the data source has changed its list.
FeedChanged(events) ==
    [op |-> "none", n |-> 0, pre |-> NoPre, empty |-> hist.empty /\ events = <<>>,
     pending |-> IF events /= <<>> /\ events[Len(events)].id = hist.pending
                 THEN hist.pending ELSE None,
     was_pending |-> None]

\* The data source reports a new motion event, newest last, with no data
\* item yet or with its first one.
NewEvent ==
    \E i \in EventIds, d \in DataSeqs(1) :
        /\ \A k \in 1..Len(feed) : feed[k].id /= i
        /\ TotalItems(feed) + Len(d) <= MaxItems
        /\ feed' = Append(feed, [id |-> i, data |-> d])
        /\ hist' = FeedChanged(feed')
        /\ UNCHANGED <<now, last_video_id, video_url, expires_at, utcnow, streamVars, imageVars, setupVars, raceVars>>

\* The data source adds a data item to its newest event (the video of an
\* event becomes available after the event itself).
AddItem ==
    \E it \in Items :
        /\ feed /= <<>>
        /\ TotalItems(feed) < MaxItems
        /\ feed' = [feed EXCEPT ![Len(feed)].data = Append(@, it)]
        /\ hist' = FeedChanged(feed')
        /\ UNCHANGED <<now, last_video_id, video_url, expires_at, utcnow, streamVars, imageVars, setupVars, raceVars>>

\* The data source renews the file reference of a video item of its newest
\* event (the references are signed URLs with a limited life).
RenewFile ==
    \E f \in Files :
        /\ feed /= <<>>
        /\ \E k \in 1..Len(feed[Len(feed)].data) :
            /\ IsVideoItem(feed[Len(feed)].data[k])
            /\ feed[Len(feed)].data[k].file /= f
            /\ feed' = [feed EXCEPT ![Len(feed)].data[k].file = f]
        /\ hist' = FeedChanged(feed')
        /\ UNCHANGED <<now, last_video_id, video_url, expires_at, utcnow, streamVars, imageVars, setupVars, raceVars>>

\* The data source drops its oldest event.
ExpireEvent ==
    /\ feed /= <<>>
    /\ feed' = Tail(feed)
    /\ hist' = FeedChanged(feed')
    /\ UNCHANGED <<now, last_video_id, video_url, expires_at, utcnow, streamVars, imageVars, setupVars, raceVars>>

\* ------------------------------------ update() beside the data source
\* update() calls get_motion_events() three times; the data source may
\* change its list between the calls.
\* Line 203 and the first call: the length test.
UpdateFetch1 ==
    /\ upd_pc = "idle"
    /\ utcnow' = now
    /\ upd_pc' = IF Len(feed) > 0 THEN "fetch2" ELSE "returned"
    /\ UNCHANGED <<feed, now, last_video_id, video_url, expires_at, hist,
                   upd_events_data, upd_event_id, data_from, upd_adopted,
                   streamVars, imageVars, setupVars>>

\* The second call: [-1]["data"]; an IndexError on an empty list.
UpdateFetch2 ==
    /\ upd_pc = "fetch2"
    /\ IF feed = <<>>
       THEN /\ upd_pc' = "raised"
            /\ UNCHANGED <<upd_events_data, data_from>>
       ELSE /\ upd_pc' = "fetch3"
            /\ upd_events_data' = feed[Len(feed)].data
            /\ data_from' = feed[Len(feed)].id
    /\ UNCHANGED <<camVars, upd_event_id, upd_adopted, streamVars, imageVars, setupVars>>

\* The third call: [-1]["id"], an IndexError on an empty list; then the rest
\* of update() on the data and the id it has read.
UpdateFetch3 ==
    /\ upd_pc = "fetch3"
    /\ IF feed = <<>>
       THEN /\ upd_pc' = "raised"
            /\ UNCHANGED <<last_video_id, video_url, expires_at, upd_event_id, upd_adopted>>
       ELSE LET read == <<[id |-> data_from, data |-> upd_events_data]>>
                s == update(Self, read, read, feed, utcnow)
            IN  /\ upd_pc' = "returned"
                /\ upd_event_id' = feed[Len(feed)].id
                /\ last_video_id' = s.last_video_id
                /\ video_url' = s.video_url
                /\ expires_at' = s.expires_at
                /\ upd_adopted' = (Cached(s) /= Cached(Self))
    /\ UNCHANGED <<feed, now, utcnow, hist, upd_events_data, data_from,
                   streamVars, imageVars, setupVars>>

\* ------------------------------------------- handle_async_mjpeg_stream
\* Mutant of NoVideo: the test of _video_url is missing.
NoVideo_never(url) == FALSE

\* self._video_url is None
NoVideo(url) == url = None

\* The request arrives: no stream when _video_url is None, else the helper
\* is created and open_camera(self._video_url) is awaited.
StreamRequest ==
    /\ stream_pc = "idle"
    /\ IF NoVideo(video_url)
       THEN /\ stream_pc' = "returned"
            /\ stream_result' = None
            /\ calls' = calls
       ELSE /\ stream_pc' = "open_camera"
            /\ stream_result' = stream_result
            /\ calls' = calls \cup {"CameraMjpeg", "open_camera"}
    /\ UNCHANGED <<camVars, session, stream_exc, imageVars, setupVars, raceVars>>

\* await stream.open_camera(...), outside the try block.  It returns with
\* the session open, or it raises (the helper fails, or the request is
\* cancelled while it is awaited) and the exception leaves the coroutine;
\* the ffmpeg process may or may not have been started by then.
OpenCamera ==
    /\ stream_pc = "open_camera"
    /\ \/ stream_pc' = "get_reader" /\ session' = "open"
       \/ stream_pc' = "raised" /\ session' \in {"none", "open"}
    /\ UNCHANGED <<camVars, stream_exc, stream_result, calls, imageVars, setupVars, raceVars>>

\* stream_reader = await stream.get_reader(), inside the try block.
GetReader ==
    /\ stream_pc = "get_reader"
    /\ \/ stream_pc' = "proxy" /\ stream_exc' = FALSE
       \/ stream_pc' = "close" /\ stream_exc' = TRUE
    /\ calls' = calls \cup {"get_reader"}
    /\ UNCHANGED <<camVars, session, stream_result, imageVars, setupVars, raceVars>>

\* return await async_aiohttp_proxy_stream(...), inside the try block.
ProxyStream ==
    /\ stream_pc = "proxy"
    /\ stream_pc' = "close"
    /\ stream_exc' \in BOOLEAN
    /\ calls' = calls \cup {"async_aiohttp_proxy_stream"}
    /\ UNCHANGED <<camVars, session, stream_result, imageVars, setupVars, raceVars>>

\* finally: await stream.close(); then the result or the pending exception.
CloseStream ==
    /\ stream_pc = "close"
    /\ session' = "closed"
    /\ stream_pc' = IF stream_exc THEN "raised" ELSE "returned"
    /\ stream_result' = IF stream_exc THEN stream_result ELSE "response"
    /\ calls' = calls \cup {"close"}
    /\ UNCHANGED <<camVars, stream_exc, imageVars, setupVars, raceVars>>

\* -------------------------------------------------- async_camera_image
\* Mutant of shield: the cancellation of the caller reaches the inner task.
shield_transparent(task) == "cancelled"

\* asyncio.shield(...): the state of the wrapped task once the coroutine that
\* awaits it is cancelled.
shield(task) == task

\* The host asks for a still image: the ImageFrame helper is created, then no
\* image when _video_url is None, else get_image(...) is started under
\* asyncio.shield and awaited.
ImageRequest ==
    /\ image_pc = "idle"
    /\ IF NoVideo(video_url)
       THEN /\ image_pc' = "returned"
            /\ image_result' = None
            /\ frame_task' = frame_task
            /\ calls' = calls \cup {"ImageFrame"}
       ELSE /\ image_pc' = "awaiting"
            /\ image_result' = image_result
            /\ frame_task' = "running"
            /\ calls' = calls \cup {"ImageFrame", "get_image"}
    /\ UNCHANGED <<camVars, stream_pc, session, stream_exc, stream_result, setupVars, raceVars>>

\* The helper finishes get_image(...): with the image, or with its failure.
FrameFinish ==
    /\ frame_task = "running"
    /\ frame_task' \in {"done", "failed"}
    /\ UNCHANGED <<camVars, streamVars, image_pc, image_result, setupVars, raceVars>>

\* The await resumes with the outcome of the finished task.
ImageResume ==
    /\ image_pc = "awaiting"
    /\ frame_task \in {"done", "failed"}
    /\ image_pc' = IF frame_task = "done" THEN "returned" ELSE "raised"
    /\ image_result' = IF frame_task = "done" THEN "jpeg" ELSE image_result
    /\ UNCHANGED <<camVars, streamVars, frame_task, setupVars, raceVars>>

\* The caller of async_camera_image is cancelled while it awaits the shield.
ImageCancel ==
    /\ image_pc = "awaiting"
    /\ image_pc' = "cancelled"
    /\ frame_task' = shield(frame_task)
    /\ UNCHANGED <<camVars, streamVars, image_result, setupVars, raceVars>>

\* ------------------------------------------------------- setup_platform
\* Mutant of setup_platform: the notification is created without the test
\* `if cam_offline`.
setup_platform_always_notifies(get_devices) ==
    LET cam_list == SelectSeq(get_devices, LAMBDA camera : camera.is_online)
        cam_offline == SelectSeq(get_devices, LAMBDA camera : ~camera.is_online)
    IN  [cams |-> cam_list,
         notifications |->
            <<[names |-> [k \in 1..Len(cam_offline) |-> cam_offline[k].name]]>>]

\* setup_platform: the loop sorts the devices into cams (an entity is created
\* for each) and cam_offline; one notification lists the names of
\* cam_offline when it is not empty; cams go to add_entities.
setup_platform(get_devices) ==
    LET cam_list == SelectSeq(get_devices, LAMBDA camera : camera.is_online)
        cam_offline == SelectSeq(get_devices, LAMBDA camera : ~camera.is_online)
    IN  [cams |-> cam_list,
         notifications |->
            IF cam_offline /= <<>>
            THEN <<[names |-> [k \in 1..Len(cam_offline) |-> cam_offline[k].name]]>>
            ELSE <<>>]

\* Platform setup starts on some snapshot of the devices.
InitSetup ==
    /\ InitEntity
    /\ feed = <<>>
    /\ devices \in DeviceLists
    /\ setup_pc = "start"
    /\ cams = <<>>
    /\ notifications = <<>>

\* The host calls setup_platform.
Setup ==
    /\ setup_pc = "start"
    /\ LET r == setup_platform(devices)
       IN  /\ cams' = r.cams
           /\ notifications' = r.notifications
    /\ setup_pc' = "done"
    /\ UNCHANGED <<camVars, streamVars, imageVars, devices, raceVars>>

NextSetup == Setup

SpecSetup == InitSetup /\ [][NextSetup]_vars

Next == Update \/ Tick \/ NewEvent \/ AddItem \/ RenewFile \/ ExpireEvent

Spec == Init /\ [][Next]_vars

\* One request for the MJPEG stream, on the entity as constructed.
NextStream == StreamRequest \/ OpenCamera \/ GetReader \/ ProxyStream \/ CloseStream

\* From time t the clock can still advance by FORCE_REFRESH_INTERVAL.
CanOutlast(t) ==
    \E k \in 0..MaxTime :
        /\ t + k * ClockStep <= MaxTime
        /\ k * ClockStep >= FORCE_REFRESH_INTERVAL

\* The data source changes its list, early enough for the clock to pass any
\* deadline set before the change.
EarlyFeedChange ==
    /\ CanOutlast(now)
    /\ (NewEvent \/ AddItem \/ RenewFile \/ ExpireEvent)

\* The host keeps calling update() while the clock advances, and the list of
\* the data source stays as it is from some time on.
NextLive == Update \/ Tick \/ EarlyFeedChange

SpecLive == Init /\ [][NextLive]_vars /\ WF_vars(Tick) /\ WF_vars(Update)

\* One update() whose three get_motion_events() calls are separate steps,
\* with the data source changing its list at any time.
NextRace ==
    \/ UpdateFetch1 \/ UpdateFetch2 \/ UpdateFetch3
    \/ NewEvent \/ AddItem \/ RenewFile \/ ExpireEvent

SpecRace == Init /\ [][NextRace]_vars

SpecStream == Init /\ [][NextStream]_vars

\* One request for a still image and one for the stream, on the entity as
\* constructed; a started get_image(...) is run to its end by the helper.
NextMedia ==
    \/ StreamRequest \/ OpenCamera \/ GetReader \/ ProxyStream \/ CloseStream
    \/ ImageRequest \/ FrameFinish \/ ImageResume \/ ImageCancel

SpecMedia == Init /\ [][NextMedia]_vars /\ WF_vars(FrameFinish)

\* ------------------------------------------------------------- properties
\* The newest event of the feed.
NewestEvent == feed[Len(feed)]

\* A data item tagged as a video (file-type tag 2).
HasTag2(it) == "file_type" \in DOMAIN it /\ it.file_type = 2

\* The list d holds a type-2 item.
HasVideo(d) == \E i \in 1..Len(d) : HasTag2(d[i])

\* f is the file reference of the first type-2 item of d.
FirstVideoFile(d, f) ==
    \E i \in 1..Len(d) :
        /\ HasTag2(d[i])
        /\ d[i].file = f
        /\ \A j \in 1..(i - 1) : ~HasTag2(d[j])

\* The last call on the entity was its construction / an update(), and the
\* data source has returned the same list since.
AfterInit == hist.op = "init"
AfterUpdate == hist.op = "update"

\* The last update() saw a non-empty list, and its trigger condition held:
\* the newest id differed from last_video_id or its time was >= expires_at.
Triggered ==
    /\ AfterUpdate
    /\ feed /= <<>>
    /\ NewestEvent.id /= hist.pre.last_video_id \/ utcnow >= hist.pre.expires_at

\* C1 as stated: whenever the newest event has a type-2 item, video_url is
\* the file reference of the first one after construction and after every
\* update(), whatever the entity held before.
C1_UrlAfterAnyCall ==
    (hist.op \in {"init", "update"} /\ feed /= <<>> /\ HasVideo(NewestEvent.data))
        => FirstVideoFile(NewestEvent.data, video_url)

\* C1 as amended: video_url is the file reference of the first type-2 item of
\* the newest event after construction, and after every update() whose
\* trigger condition held when that file reference is not empty.
C1_UrlAfterInitOrTriggeredUpdate ==
    /\ (AfterInit /\ feed /= <<>> /\ HasVideo(NewestEvent.data))
        => FirstVideoFile(NewestEvent.data, video_url)
    /\ (Triggered /\ HasVideo(NewestEvent.data)
            /\ ~FirstVideoFile(NewestEvent.data, ""))
        => FirstVideoFile(NewestEvent.data, video_url)

\* C1's case: a forced update() on the same event replaced the URL by the
\* first of two type-2 items with different file references.
C1_Witness ==
    /\ Triggered
    /\ NewestEvent.id = hist.pre.last_video_id
    /\ Len(NewestEvent.data) = 2
    /\ HasTag2(NewestEvent.data[1]) /\ HasTag2(NewestEvent.data[2])
    /\ NewestEvent.data[1].file /= NewestEvent.data[2].file
    /\ video_url = NewestEvent.data[1].file
    /\ video_url /= hist.pre.video_url

\* C2 as stated: an update() that finds a newest event B other than the one
\* held, with a type-2 item, ends with last_video_id = B and video_url = the
\* file reference of that item, expired or not.
C2_NewEventAdopted ==
    (AfterUpdate /\ feed /= <<>> /\ NewestEvent.id /= hist.pre.last_video_id
        /\ HasVideo(NewestEvent.data))
        => /\ last_video_id = NewestEvent.id
           /\ FirstVideoFile(NewestEvent.data, video_url)

\* C2 as amended: the same, when the file reference of the first type-2 item
\* of B is not empty.
C2_NewEventWithUrlAdopted ==
    (AfterUpdate /\ feed /= <<>> /\ NewestEvent.id /= hist.pre.last_video_id
        /\ HasVideo(NewestEvent.data) /\ ~FirstVideoFile(NewestEvent.data, ""))
        => /\ last_video_id = NewestEvent.id
           /\ FirstVideoFile(NewestEvent.data, video_url)

\* C2's case: the entity held event A with URL F1, and an update() before the
\* deadline adopted event B with another URL F2.
C2_Witness ==
    /\ AfterUpdate /\ feed /= <<>>
    /\ hist.pre.last_video_id \notin {None, NewestEvent.id}
    /\ hist.pre.video_url \notin {None, ""}
    /\ utcnow < hist.pre.expires_at
    /\ last_video_id = NewestEvent.id
    /\ video_url \notin {None, "", hist.pre.video_url}

\* C3 as stated: an update() on a non-empty list sets expires_at to its time
\* + 45 minutes if its trigger condition held, and leaves it otherwise.
C3_ResetIffTriggered ==
    (AfterUpdate /\ feed /= <<>>)
        => IF Triggered
           THEN expires_at = utcnow + 45
           ELSE expires_at = hist.pre.expires_at

\* C3 as amended: expires_at is set to the time of the update() + 45 minutes
\* if the trigger condition held and the newest event has a type-2 item with
\* a non-empty file reference first, and is left unchanged otherwise.
C3_ResetIffAdopted ==
    (AfterUpdate /\ feed /= <<>>)
        => IF Triggered /\ HasVideo(NewestEvent.data)
                /\ ~FirstVideoFile(NewestEvent.data, "")
           THEN expires_at = utcnow + 45
           ELSE expires_at = hist.pre.expires_at

\* C3's case: an update() exactly at the deadline, on the event already held,
\* moved the deadline.
C3_Witness ==
    /\ Triggered
    /\ NewestEvent.id = hist.pre.last_video_id
    /\ utcnow = hist.pre.expires_at
    /\ expires_at = utcnow + 45

\* C4 as stated: an update() at a time t >= expires_at on a newest event with
\* a type-2 item ends with expires_at = t + 45 minutes and video_url = the
\* file reference of that item.
C4_ForcedRefresh ==
    (AfterUpdate /\ feed /= <<>> /\ utcnow >= hist.pre.expires_at
        /\ HasVideo(NewestEvent.data))
        => /\ expires_at = utcnow + 45
           /\ FirstVideoFile(NewestEvent.data, video_url)

\* C4 as amended: the same, when the file reference of the first type-2 item
\* of the newest event is not empty.
C4_ForcedRefreshWithUrl ==
    (AfterUpdate /\ feed /= <<>> /\ utcnow >= hist.pre.expires_at
        /\ HasVideo(NewestEvent.data) /\ ~FirstVideoFile(NewestEvent.data, ""))
        => /\ expires_at = utcnow + 45
           /\ FirstVideoFile(NewestEvent.data, video_url)

\* C4's case: a forced update() after the deadline, on the event already held,
\* took a renewed file reference.
C4_Witness ==
    /\ AfterUpdate /\ feed /= <<>>
    /\ utcnow > hist.pre.expires_at
    /\ NewestEvent.id = hist.pre.last_video_id
    /\ expires_at = utcnow + 45
    /\ video_url \notin {None, "", hist.pre.video_url}

\* C5: a second update() in a row on the same list, made before expires_at as
\* the first one left it, leaves last_video_id, video_url and expires_at as
\* the first one left them.
C5_SecondUpdateIdempotent ==
    (hist.n >= 2 /\ utcnow < hist.pre.expires_at) => Cached(Self) = hist.pre

\* C5's case: two update() calls in a row at different times on a list whose
\* newest event, with a URL, is the one held.
C5_Witness ==
    /\ hist.n >= 2 /\ feed /= <<>>
    /\ utcnow < hist.pre.expires_at
    /\ expires_at < utcnow + 45
    /\ last_video_id = NewestEvent.id
    /\ Truthy(video_url)

\* C6: an update() whose trigger condition held on a newest event without a
\* type-2 item leaves last_video_id, video_url and expires_at unchanged.
C6_NoVideoKeepsState ==
    (Triggered /\ ~HasVideo(NewestEvent.data)) => Cached(Self) = hist.pre

\* C6's case: the entity held an event and its URL, and an update() saw a new
\* event that has data items but no video.
C6_Witness ==
    /\ Triggered /\ ~HasVideo(NewestEvent.data)
    /\ NewestEvent.data /= <<>>
    /\ NewestEvent.id /= last_video_id
    /\ last_video_id /= None
    /\ Truthy(video_url)

\* C7: video_url is never a fabricated value: where it is not None after
\* construction, and whenever a step changes it, its value is the file
\* reference of a type-2 item of the newest event that call read.
C7_UrlComesFromVideoItem ==
    /\ video_url /= None
        => (feed /= <<>> /\ \E i \in 1..Len(NewestEvent.data) :
                HasTag2(NewestEvent.data[i]) /\ NewestEvent.data[i].file = video_url)
    /\ [][video_url' /= video_url
            => (feed /= <<>> /\ \E i \in 1..Len(NewestEvent.data) :
                    HasTag2(NewestEvent.data[i]) /\ NewestEvent.data[i].file = video_url')]_vars

\* C7's case: an update() replaced an absent URL while the newest event also
\* has an item that is not a video.
C7_Witness ==
    /\ AfterUpdate /\ feed /= <<>>
    /\ hist.pre.video_url = None
    /\ video_url /= None
    /\ \E i \in 1..Len(NewestEvent.data) : ~HasTag2(NewestEvent.data[i])

\* C8: while the list has been empty since construction, last_video_id and
\* video_url are None.
C8_EmptyFeedStaysAbsent ==
    hist.empty => (last_video_id = None /\ video_url = None)

\* C8's case: two update() calls in a row on the list empty since
\* construction, the last one after the deadline.
C8_Witness ==
    /\ hist.empty /\ hist.n >= 2
    /\ utcnow >= expires_at

\* C9: an update() that fetched an empty list leaves last_video_id, video_url
\* and expires_at unchanged.
C9_EmptyFetchIsNoOp ==
    (AfterUpdate /\ feed = <<>>) => Cached(Self) = hist.pre

\* C9's case: the entity held an event and its URL, the events disappeared,
\* and an update() ran after the deadline.
C9_Witness ==
    /\ AfterUpdate /\ feed = <<>>
    /\ last_video_id /= None
    /\ Truthy(video_url)
    /\ utcnow >= expires_at

\* C10 as stated: once the stream request has returned or raised, no helper
\* session is left open.
C10_NoSessionLeftOpen ==
    stream_pc \in {"returned", "raised"} => session /= "open"

\* C11: while video_url is None, a finished still-image request and a
\* finished stream request have returned None, and nothing has been called
\* on the ffmpeg helpers (no get_image, no open_camera, get_reader or close)
\* nor on the proxy utility.
C11_NoVideoNoHelperCall ==
    video_url = None =>
        /\ calls \cap {"get_image", "open_camera", "get_reader", "close",
                        "async_aiohttp_proxy_stream"} = {}
        /\ frame_task = "none" /\ session = "none"
        /\ image_pc \in {"idle", "returned"} /\ stream_pc \in {"idle", "returned"}
        /\ image_pc = "returned" => image_result = None
        /\ stream_pc = "returned" => stream_result = None

\* C11's case: both requests have been served on an entity without a URL.
C11_Witness ==
    /\ video_url = None
    /\ image_pc = "returned" /\ stream_pc = "returned"
    /\ image_result = None /\ stream_result = None

\* C12: the task of get_image(...) is never cancelled, and once the caller
\* has been cancelled with the task running, the task reaches its own end,
\* the image or the helper's failure.
C12_ShieldedFrameCompletes ==
    /\ [](frame_task /= "cancelled")
    /\ (image_pc = "cancelled" /\ frame_task = "running")
            ~> (frame_task \in {"done", "failed"})

\* C12's case: the caller was cancelled and the task went on to finish.
C12_Witness ==
    /\ image_pc = "cancelled"
    /\ frame_task \in {"done", "failed"}

\* C13: after setup_platform, the entities created are exactly the online
\* devices, in their order; one notification exists if some device is
\* offline and none otherwise, and it names every offline device.
C13_SetupSortsDevices ==
    setup_pc = "done" =>
        LET online == {i \in 1..Len(devices) : devices[i].is_online}
            offline == {i \in 1..Len(devices) : ~devices[i].is_online}
        IN  /\ Len(cams) = Cardinality(online)
            /\ \A k \in 1..Len(cams) : cams[k].is_online
            /\ \A i \in online :
                    \E k \in 1..Len(cams) :
                        /\ cams[k] = devices[i]
                        /\ k = Cardinality({j \in online : j <= i})
            /\ Len(notifications) = IF offline = {} THEN 0 ELSE 1
            /\ \A i \in offline :
                    \E k \in 1..Len(notifications[1].names) :
                        notifications[1].names[k] = devices[i].name

\* C13's case: setup has run on a snapshot with an online device between two
\* offline devices of different names.
C13_Witness ==
    /\ setup_pc = "done"
    /\ Len(devices) = 3
    /\ ~devices[1].is_online /\ devices[2].is_online /\ ~devices[3].is_online
    /\ devices[1].name /= devices[3].name
    /\ Len(cams) = 1 /\ Len(notifications) = 1

\* C14: after construction over a non-empty list, last_video_id is the id of
\* its last event, with or without a type-2 item (video_url is None without
\* one), and expires_at is the construction time + 45 minutes.
C14_ConstructionFields ==
    (AfterInit /\ feed /= <<>>)
        => /\ last_video_id = NewestEvent.id
           /\ ~HasVideo(NewestEvent.data) => video_url = None
           /\ expires_at = utcnow + 45

\* C14's case: the entity was constructed over two events, the older one with
\* a video and the last one without.
C14_Witness ==
    /\ AfterInit /\ Len(feed) = 2
    /\ HasVideo(feed[1].data) /\ ~HasVideo(feed[2].data)
    /\ last_video_id = feed[2].id
    /\ video_url = None

\* C15 as stated: an update() on a newest event that an earlier update() saw
\* without a type-2 item, and that is still not the event held, has a true
\* trigger condition, and if the event's data now has a type-2 item it ends
\* with last_video_id = that event and video_url = the item's file reference.
C15_PendingEventAdopted ==
    (AfterUpdate /\ feed /= <<>> /\ hist.was_pending = NewestEvent.id)
        => /\ Triggered
           /\ HasVideo(NewestEvent.data)
                => /\ last_video_id = NewestEvent.id
                   /\ FirstVideoFile(NewestEvent.data, video_url)

\* C15 as amended: the same, when the file reference of the first type-2 item
\* of the event is not empty.
C15_PendingEventWithUrlAdopted ==
    (AfterUpdate /\ feed /= <<>> /\ hist.was_pending = NewestEvent.id)
        => /\ Triggered
           /\ (HasVideo(NewestEvent.data) /\ ~FirstVideoFile(NewestEvent.data, ""))
                => /\ last_video_id = NewestEvent.id
                   /\ FirstVideoFile(NewestEvent.data, video_url)

\* C15's case: the entity held another event and its URL; the new event was
\* seen without a video, got one, and was adopted before the deadline.
C15_Witness ==
    /\ AfterUpdate /\ feed /= <<>>
    /\ hist.was_pending = NewestEvent.id
    /\ hist.pre.last_video_id \notin {None, NewestEvent.id}
    /\ Truthy(hist.pre.video_url)
    /\ utcnow < hist.pre.expires_at
    /\ last_video_id = NewestEvent.id
    /\ Truthy(video_url)

\* C16 as stated: an update() beside a changing data source never indexes an
\* empty list, and when it assigns the entity's fields, the id it stores and
\* the data it took the URL from are of the same event.
C16_OneSnapshot ==
    /\ upd_pc /= "raised"
    /\ (upd_pc = "returned" /\ upd_adopted) => data_from = upd_event_id

\* C17 as stated: video_url, where it is not None, is the file reference of
\* the first type-2 item of the event whose id is last_video_id, as the call
\* that wrote them read that event: this holds after construction, and every
\* step that changes one of the two leaves both as read from the newest
\* event of the list it fetched.
C17_UrlBelongsToHeldEvent ==
    /\ video_url /= None
        => (feed /= <<>> /\ last_video_id = NewestEvent.id
                /\ FirstVideoFile(NewestEvent.data, video_url))
    /\ [][(video_url' /= video_url \/ last_video_id' /= last_video_id)
            => /\ feed' = feed /\ feed /= <<>>
               /\ last_video_id' = NewestEvent.id
               /\ FirstVideoFile(NewestEvent.data, video_url')]_vars

\* C18: a step never takes video_url from a value to None, nor last_video_id
\* from a value to None.
C18_PresenceMonotonic ==
    [][/\ video_url /= None => video_url' /= None
       /\ last_video_id /= None => last_video_id' /= None]_vars

\* C18's case: the entity holds a URL while a forced update() has just seen a
\* newest event with data but no type-2 item.
C18_Witness ==
    /\ AfterUpdate /\ feed /= <<>>
    /\ utcnow >= hist.pre.expires_at
    /\ NewestEvent.data /= <<>> /\ ~HasVideo(NewestEvent.data)
    /\ Truthy(video_url) /\ last_video_id /= None

\* The list of the data source no longer changes.
FeedSettled == ~CanOutlast(now)

====
